---- MODULE Spec2Model ----
(***************************************************************************)
(* Model of cloud/amazon/ecs_task_facts.py: one invocation of main(), the  *)
(* filter resolution of EcsTaskManager.list_tasks / get_tasks_list against  *)
(* the paginated remote list_tasks call, and EcsTaskManager.describe_tasks  *)
(* against the remote describe_tasks call.                                  *)
(***************************************************************************)
EXTENDS Integers, Sequences, FiniteSets, TLC

VARIABLES
    params,         \* module.params of this invocation
    pc,             \* position of the invocation in main / list_tasks / describe_tasks
    fn_args,        \* list_tasks' fn_args dict (key -> value)
    tasks,          \* list_tasks' running set: None or Some(set of identifiers)
    cur,            \* the query get_tasks_list is currently paginating
    listed,         \* get_tasks_list's accumulator
    served,         \* remote side: identifiers served by the pages of the current query
    npages,         \* pages fetched by the current query
    queries,        \* remote side: the list queries issued, with their arguments
    outcome,        \* remote side: how each finished list query ended
    ret,            \* list_tasks' return value: None or Some(dict)
    dargs,          \* describe_tasks' fn_args dict: None or Some(dict)
    describeCalls,  \* remote side: the describe_tasks calls issued, and whether each faulted
    result,         \* what exit_json was given: None or Some(dict)
    err,            \* the exception that ended the invocation, or "none"
    ecr_facts,      \* ecr_images main's ecr_facts dict
    changed,        \* ecr_images main's changed flag
    deleteCalls     \* remote side: the batch_delete_image calls issued, with their responses

vars == <<params, pc, fn_args, tasks, cur, listed, served, npages, queries,
          outcome, ret, dargs, describeCalls, result, err, ecr_facts, changed,
          deleteCalls>>

\* The variables only an ecs_task_facts invocation uses.
ecsVars == <<fn_args, tasks, cur, listed, served, npages, queries, outcome, ret,
             dargs, describeCalls>>

\* The variables only an ecr_images invocation uses.
ecrVars == <<ecr_facts, changed, deleteCalls>>

----------------------------------------------------------------------------
(* Bounds *)

NumIds == 2
MaxPages == 2
DescribeLimit == 1

----------------------------------------------------------------------------
(* Values *)

None == <<>>
Some(x) == <<x>>

Digits == <<"1", "2", "3", "4", "5", "6", "7", "8", "9">>

\* A task ARN, as a string of characters.
Arn(i) == <<"t", Digits[i]>>

Ids == {Arn(i) : i \in 1..NumIds}

\* The values of the 'task' parameter tried: unset, one ARN, two ARNs
\* separated by a comma, and a lone separator.
TaskInputs == {<<>>, <<"t", "1">>, <<"t", "1", ",", "t", "2">>, <<",">>}

StatusChoices == {"running", "stopped"}

ExclusiveKeys == {"family", "serviceName", "desiredStatus"}

NonExclusiveKeys == {"cluster", "containerInstance", "startedBy"}

Range(s) == {s[i] : i \in 1..Len(s)}

\* Every listing of a set as a sequence without repetition.
Listings(S) ==
    {s \in [1..Cardinality(S) -> S] : \A i, j \in 1..Cardinality(S) : s[i] = s[j] => i = j}

EmptyDict == [k \in {} |-> ""]

SetKey(d, key, v) == [k \in DOMAIN d \cup {key} |-> IF k = key THEN v ELSE d[k]]

Truthy(s) == s # ""

----------------------------------------------------------------------------
(* Pure functions of the module *)

\* str.upper() on the status choices.
Upper(s) ==
    CASE s = "running" -> "RUNNING"
      [] s = "pending" -> "PENDING"
      [] s = "stopped" -> "STOPPED"
      [] OTHER -> s

HasSep(s) == \E i \in 1..Len(s) : s[i] = ","

FirstSep(s) == CHOOSE i \in 1..Len(s) : s[i] = "," /\ \A j \in 1..(i - 1) : s[j] # ","

RECURSIVE Split(_)
\* task.split(",")
Split(s) ==
    IF HasSep(s)
    THEN <<SubSeq(s, 1, FirstSep(s) - 1)>> \o Split(SubSeq(s, FirstSep(s) + 1, Len(s)))
    ELSE <<s>>

\* The non-exclusive parameters list_tasks applies to every query.
NonExclusiveArgs(p) ==
    LET a1 == IF Truthy(p.cluster) THEN SetKey(EmptyDict, "cluster", p.cluster) ELSE EmptyDict
        a2 == IF Truthy(p.container) THEN SetKey(a1, "containerInstance", p.container) ELSE a1
    IN  IF Truthy(p.started_by) THEN SetKey(a2, "startedBy", p.started_by) ELSE a2

\* The fn_args key each exclusive parameter is applied under.
KeyOf(d) ==
    CASE d = "family" -> "family"
      [] d = "service" -> "serviceName"
      [] d = "status" -> "desiredStatus"

\* The fn_args value each exclusive parameter is applied with.
ValueOf(p, d) ==
    CASE d = "family" -> p.family
      [] d = "service" -> p.service
      [] d = "status" -> Upper(p.status)

\* Whether list_tasks applies the exclusive parameter d.
Supplied(p, d) ==
    CASE d = "family" -> Truthy(p.family)
      [] d = "service" -> Truthy(p.service)
      [] d = "status" -> Truthy(p.status)

DelKeyKeep(d, key) == d

\* del fn_args[key]
DelKey(d, key) == [k \in DOMAIN d \ {key} |-> d[k]]

\* The position list_tasks moves to after the exclusive parameter d.
After(d) ==
    CASE d = "family" -> "service"
      [] d = "service" -> "status"
      [] d = "status" -> "base"
      [] d = "base" -> "return"

AccumulateLast(acc, page) == page

\* listed.update(set(page['taskArns']))
Accumulate(acc, page) == acc \cup page

GetTasksListLastWins(t, fault, l) ==
    IF fault THEN t ELSE Some(l)

\* get_tasks_list's return value: the running set t folded with what the
\* query listed, or t itself when the query raised ClientError.
GetTasksList(t, fault, l) ==
    IF fault
    THEN t
    ELSE IF t = None THEN Some(l) ELSE Some(t[1] \cap l)

TaskSuppliedNever(p) == FALSE

\* describe_tasks' "if task:"
TaskSupplied(p) == p.task # <<>>

ShortCircuitNever(ids) == FALSE

\* describe_tasks' "if len(fn_args['tasks']) < 1"
ShortCircuit(ids) == Len(ids) < 1

\* describe_tasks' fn_args before the identifiers are set.
DescribeArgs(p) ==
    IF Truthy(p.cluster) THEN SetKey(EmptyDict, "cluster", p.cluster) ELSE EmptyDict

\* str() of a datetime.
Str(v) == [type |-> "str", of |-> v.of]

\* jsonize: the timestamps present on a task become strings.
jsonize(task) ==
    [k \in DOMAIN task |->
        IF k \in {"createdAt", "startedAt", "stoppedAt"} THEN Str(task[k]) ELSE task[k]]

\* The remote's record of a task: running tasks carry startedAt too.
RemoteTask(id, started) ==
    IF started
    THEN [taskArn |-> id, createdAt |-> [type |-> "datetime", of |-> id],
          startedAt |-> [type |-> "datetime", of |-> id]]
    ELSE [taskArn |-> id, createdAt |-> [type |-> "datetime", of |-> id]]

\* The remote's failure entry for an identifier it cannot describe.
RemoteFailure(id) == [arn |-> id, reason |-> "MISSING"]

\* The subsequence of s at the indices in I, in order.
RECURSIVE Pick(_, _, _)
Pick(s, I, i) ==
    IF i > Len(s) THEN <<>>
    ELSE (IF i \in I THEN <<s[i]>> ELSE <<>>) \o Pick(s, I, i + 1)

\* ansible_facts as describe_tasks builds them from the response.
RelevantResponse(response) ==
    LET base == [tasks |-> [i \in 1..Len(response.tasks) |-> jsonize(response.tasks[i])]]
    IN  IF "failures" \in DOMAIN response /\ Len(response.failures) > 0
        THEN [tasks |-> base.tasks, tasks_not_running |-> response.failures]
        ELSE base

DescribeFaultAbsorbed == [pc |-> "done", result |-> Some([changed |-> FALSE, ansible_facts |-> [tasks |-> <<>>]]), err |-> "none"]

\* A ClientError of the remote describe_tasks call is not caught anywhere.
DescribeFault == [pc |-> "error", result |-> None, err |-> "ClientError"]

----------------------------------------------------------------------------
(* The invocation *)

Params ==
    [details : BOOLEAN, cluster : {"", "c1"}, container : {"", "i1"},
     task : TaskInputs, family : {"", "web"}, service : {"", "svc"},
     status : {""} \cup StatusChoices, started_by : {"", "me"}]

NoOutcome == [d \in {"family", "service", "status", "base"} |-> None]

Init ==
    /\ params \in Params
    /\ pc = "main"
    /\ fn_args = EmptyDict
    /\ tasks = None
    /\ cur = "none"
    /\ listed = {}
    /\ served = {}
    /\ npages = 0
    /\ queries = <<>>
    /\ outcome = NoOutcome
    /\ ret = None
    /\ dargs = None
    /\ describeCalls = <<>>
    /\ result = None
    /\ err = "none"
    /\ ecr_facts = EmptyDict
    /\ changed = FALSE
    /\ deleteCalls = <<>>

\* main with details false: list_tasks is entered, whatever 'task' is.
MainList ==
    /\ pc = "main"
    /\ ~params.details
    /\ fn_args' = NonExclusiveArgs(params)
    /\ tasks' = None
    /\ pc' = "family"
    /\ UNCHANGED <<params, cur, listed, served, npages, queries, outcome, ret,
                   dargs, describeCalls, result, err>>
    /\ UNCHANGED ecrVars

\* main with details true and 'task' set: the identifiers are task.split(",").
MainDescribeTask ==
    /\ pc = "main"
    /\ params.details
    /\ TaskSupplied(params)
    /\ dargs' = Some([args |-> DescribeArgs(params), tasks |-> Split(params.task)])
    /\ pc' = "describe"
    /\ UNCHANGED <<params, fn_args, tasks, cur, listed, served, npages, queries,
                   outcome, ret, describeCalls, result, err>>
    /\ UNCHANGED ecrVars

\* main with details true and no 'task': describe_tasks calls list_tasks.
MainDescribeResolve ==
    /\ pc = "main"
    /\ params.details
    /\ ~TaskSupplied(params)
    /\ fn_args' = NonExclusiveArgs(params)
    /\ tasks' = None
    /\ pc' = "family"
    /\ UNCHANGED <<params, cur, listed, served, npages, queries, outcome, ret,
                   dargs, describeCalls, result, err>>
    /\ UNCHANGED ecrVars

\* get_tasks_list is entered with the current fn_args: the paginator is built.
BeginQuery(d, args) ==
    /\ fn_args' = args
    /\ queries' = Append(queries, [dim |-> d, args |-> args])
    /\ cur' = d
    /\ listed' = {}
    /\ served' = {}
    /\ npages' = 0
    /\ pc' = "paging"

\* list_tasks' "if family: / if service: / if status:"
ApplyExclusive(d) ==
    /\ pc = d
    /\ IF Supplied(params, d)
       THEN /\ BeginQuery(d, SetKey(fn_args, KeyOf(d), ValueOf(params, d)))
            /\ UNCHANGED <<params, tasks, outcome, ret, dargs, describeCalls, result, err>>
       ELSE /\ pc' = After(d)
            /\ UNCHANGED <<params, fn_args, tasks, cur, listed, served, npages, queries,
                           outcome, ret, dargs, describeCalls, result, err>>
    /\ UNCHANGED ecrVars

\* list_tasks' "if tasks is None:"
ApplyBase ==
    /\ pc = "base"
    /\ IF tasks = None
       THEN /\ BeginQuery("base", fn_args)
            /\ UNCHANGED <<params, tasks, outcome, ret, dargs, describeCalls, result, err>>
       ELSE /\ pc' = "return"
            /\ UNCHANGED <<params, fn_args, tasks, cur, listed, served, npages, queries,
                           outcome, ret, dargs, describeCalls, result, err>>
    /\ UNCHANGED ecrVars

\* get_tasks_list returns to list_tasks, which deletes the exclusive key.
EndQuery(fault, l, s) ==
    /\ tasks' = GetTasksList(tasks, fault, l)
    /\ outcome' = [outcome EXCEPT ![cur] = Some([fault |-> fault, served |-> s])]
    /\ fn_args' = IF cur = "base" THEN fn_args ELSE DelKey(fn_args, KeyOf(cur))
    /\ pc' = After(cur)
    /\ cur' = "none"
    /\ listed' = {}
    /\ served' = {}
    /\ npages' = 0

\* The remote serves a page and a cursor to the next one.
ListPageMore ==
    /\ pc = "paging"
    /\ npages + 1 < MaxPages
    /\ \E page \in SUBSET Ids :
          /\ listed' = Accumulate(listed, page)
          /\ served' = served \cup page
    /\ npages' = npages + 1
    /\ UNCHANGED <<params, pc, fn_args, tasks, cur, queries, outcome, ret, dargs,
                   describeCalls, result, err>>
    /\ UNCHANGED ecrVars

\* The remote serves the last page of the query.
ListPageLast ==
    /\ pc = "paging"
    /\ \E page \in SUBSET Ids :
          EndQuery(FALSE, Accumulate(listed, page), served \cup page)
    /\ UNCHANGED <<params, queries, ret, dargs, describeCalls, result, err>>
    /\ UNCHANGED ecrVars

\* The remote call for a page raises ClientError: what earlier pages served is
\* lost with the exception, the query yields nothing.
ListPageFault ==
    /\ pc = "paging"
    /\ EndQuery(TRUE, listed, {})
    /\ UNCHANGED <<params, queries, ret, dargs, describeCalls, result, err>>
    /\ UNCHANGED ecrVars

\* list_tasks' "return dict(tasks = list(tasks))", and what its caller does
\* with it: main exits with it, describe_tasks takes its identifiers.
ListReturn ==
    /\ pc = "return"
    /\ IF tasks = None
       THEN /\ err' = "TypeError"
            /\ pc' = "error"
            /\ UNCHANGED <<ret, dargs, result>>
       ELSE \E l \in Listings(tasks[1]) :
              /\ ret' = Some([tasks |-> l])
              /\ err' = err
              /\ IF params.details
                 THEN /\ dargs' = Some([args |-> DescribeArgs(params), tasks |-> l])
                      /\ pc' = "describe"
                      /\ result' = result
                 ELSE /\ result' = Some([changed |-> FALSE, ansible_facts |-> [tasks |-> l]])
                      /\ pc' = "done"
                      /\ dargs' = dargs
    /\ UNCHANGED <<params, fn_args, tasks, cur, listed, served, npages, queries,
                   outcome, describeCalls>>
    /\ UNCHANGED ecrVars

\* describe_tasks with no identifier: it returns without a remote call.
DescribeShortCircuit ==
    /\ pc = "describe"
    /\ ShortCircuit(dargs[1].tasks)
    /\ result' = Some([changed |-> FALSE, ansible_facts |-> [tasks |-> <<>>]])
    /\ pc' = "done"
    /\ UNCHANGED <<params, fn_args, tasks, cur, listed, served, npages, queries,
                   outcome, ret, dargs, describeCalls, err>>
    /\ UNCHANGED ecrVars

\* The remote describe_tasks call answers: some identifiers are described,
\* the others are reported as failures.
DescribeOk ==
    /\ pc = "describe"
    /\ ~ShortCircuit(dargs[1].tasks)
    /\ describeCalls' = Append(describeCalls, [call |-> dargs[1], fault |-> FALSE])
    /\ \E found \in SUBSET (1..Len(dargs[1].tasks)), started \in BOOLEAN :
          LET ids == dargs[1].tasks
              missing == (1..Len(ids)) \ found
              response ==
                  [tasks |-> [i \in 1..Len(Pick(ids, found, 1)) |->
                                 RemoteTask(Pick(ids, found, 1)[i], started)],
                   failures |-> [i \in 1..Len(Pick(ids, missing, 1)) |->
                                    RemoteFailure(Pick(ids, missing, 1)[i])]]
          IN  result' = Some([changed |-> FALSE, ansible_facts |-> RelevantResponse(response)])
    /\ pc' = "done"
    /\ UNCHANGED <<params, fn_args, tasks, cur, listed, served, npages, queries,
                   outcome, ret, dargs, err>>
    /\ UNCHANGED ecrVars

\* The remote describe_tasks call raises ClientError.
DescribeRaises ==
    /\ pc = "describe"
    /\ ~ShortCircuit(dargs[1].tasks)
    /\ describeCalls' = Append(describeCalls, [call |-> dargs[1], fault |-> TRUE])
    /\ pc' = DescribeFault.pc
    /\ result' = DescribeFault.result
    /\ err' = DescribeFault.err
    /\ UNCHANGED <<params, fn_args, tasks, cur, listed, served, npages, queries,
                   outcome, ret, dargs>>
    /\ UNCHANGED ecrVars

Next ==
    \/ MainList
    \/ MainDescribeTask
    \/ MainDescribeResolve
    \/ ApplyExclusive("family")
    \/ ApplyExclusive("service")
    \/ ApplyExclusive("status")
    \/ ApplyBase
    \/ ListPageMore
    \/ ListPageLast
    \/ ListPageFault
    \/ ListReturn
    \/ DescribeShortCircuit
    \/ DescribeOk
    \/ DescribeRaises

Spec == Init /\ [][Next]_vars

----------------------------------------------------------------------------
(* cloud/amazon/ecr_images.py: one invocation of main() with state=absent, *)
(* EcrImagesManager.delete_images against the remote batch_delete_image    *)
(* call.                                                                    *)

MaxImages == 2

\* Python's None and a Python list, as values a dict can hold.
PyNone == [t |-> "none", v |-> <<>>]

PyList(l) == [t |-> "list", v |-> l]

\* Truth value of None or of a list.
PyTruthy(x) == x.t = "list" /\ Len(x.v) > 0

\* dict.get(key)
Get(d, key) == IF key \in DOMAIN d THEN d[key] ELSE PyNone

\* The image ids tried: by digest, by tag, by both ("" stands for a key
\* the image id does not carry).
ImageRefs ==
    {[imageDigest |-> "sha256:a", imageTag |-> ""],
     [imageDigest |-> "", imageTag |-> "0.0.1"],
     [imageDigest |-> "sha256:b", imageTag |-> "0.0.2"]}

ImageLists == UNION {[1..n -> ImageRefs] : n \in 0..MaxImages}

EcrParams == [repository : {"repo1", "repo2"}, image_ids : ImageLists, state : {"absent"}]

\* delete_images' fn_args.
DeleteArgs(p) == [repositoryName |-> p.repository, imageIds |-> p.image_ids]

\* The remote's failure entry for an image it did not delete.
ImageFailure(ref) == [imageId |-> ref, failureCode |-> "ImageNotFound"]

\* The remote's response: the images at the indices in gone were deleted,
\* the others failed; a response may leave out the list it has nothing for.
DeleteResponse(ids, gone, terse) ==
    LET deleted == Pick(ids, gone, 1)
        kept == Pick(ids, (1..Len(ids)) \ gone, 1)
        failures == [i \in 1..Len(kept) |-> ImageFailure(kept[i])]
        r1 == IF terse /\ deleted = <<>>
              THEN EmptyDict
              ELSE SetKey(EmptyDict, "imageIds", PyList(deleted))
    IN  IF terse /\ failures = <<>>
        THEN r1
        ELSE SetKey(r1, "failures", PyList(failures))

\* delete_images' return value.
DeleteImagesFacts(response) ==
    [image_ids |-> Get(response, "imageIds"), failures |-> Get(response, "failures")]

\* main's "changed = True if ecr_facts.get('imageIds') else False"
Changed(facts) == PyTruthy(Get(facts, "imageIds"))

EcrInit ==
    /\ params \in EcrParams
    /\ pc = "ecr_main"
    /\ fn_args = EmptyDict
    /\ tasks = None
    /\ cur = "none"
    /\ listed = {}
    /\ served = {}
    /\ npages = 0
    /\ queries = <<>>
    /\ outcome = NoOutcome
    /\ ret = None
    /\ dargs = None
    /\ describeCalls = <<>>
    /\ result = None
    /\ err = "none"
    /\ ecr_facts = EmptyDict
    /\ changed = FALSE
    /\ deleteCalls = <<>>

\* main with state=absent: delete_images is called, the remote answers, and
\* main exits with the changed flag and the facts.
BatchDeleteOk ==
    /\ pc = "ecr_main"
    /\ params.state = "absent"
    /\ \E gone \in SUBSET (1..Len(params.image_ids)), terse \in BOOLEAN :
          LET response == DeleteResponse(params.image_ids, gone, terse)
              facts == DeleteImagesFacts(response)
          IN  /\ deleteCalls' = Append(deleteCalls,
                                       [args |-> DeleteArgs(params), response |-> response])
              /\ ecr_facts' = facts
              /\ changed' = Changed(facts)
              /\ result' = Some([changed |-> Changed(facts), ansible_facts |-> facts])
    /\ pc' = "done"
    /\ err' = err
    /\ UNCHANGED <<params, ecsVars>>

\* The remote batch_delete_image call raises: nothing catches it.
BatchDeleteRaises ==
    /\ pc = "ecr_main"
    /\ params.state = "absent"
    /\ pc' = "error"
    /\ err' = "ClientError"
    /\ UNCHANGED <<params, ecsVars, ecr_facts, changed, deleteCalls, result>>

EcrNext ==
    \/ BatchDeleteOk
    \/ BatchDeleteRaises

SpecEcr == EcrInit /\ [][EcrNext]_vars

----------------------------------------------------------------------------
(* Vocabulary of the properties *)

ExclusiveDims == {"family", "service", "status"}

\* The exclusive parameters this invocation supplies.
SuppliedDims == {d \in ExclusiveDims : Supplied(params, d)}

\* list_tasks has returned or raised.
ListFinished == ret # None \/ err = "TypeError"

\* The list query of d has ended with a fault.
Faulted(d) == outcome[d] # None /\ outcome[d][1].fault

\* The list query of d has ended without a fault, serving S.
Yielded(d, S) == outcome[d] # None /\ ~outcome[d][1].fault /\ outcome[d][1].served = S

NoListFault == \A d \in DOMAIN outcome : ~Faulted(d)

Inter(SS) == {x \in Ids : \A S \in SS : x \in S}

NoDuplicates(l) == \A i, j \in 1..Len(l) : l[i] = l[j] => i = j

RECURSIVE JoinComma(_)
JoinComma(l) ==
    IF Len(l) = 0 THEN <<>>
    ELSE IF Len(l) = 1 THEN l[1]
    ELSE l[1] \o <<",">> \o JoinComma(Tail(l))

----------------------------------------------------------------------------
(* C1: empty-dominance.  Whenever list_tasks returns and the query of some  *)
(* supplied exclusive filter yielded nothing, because it served no          *)
(* identifier or because it faulted, the returned list is empty.            *)
C1_EmptyDominance ==
    (ret # None /\ \E d \in SuppliedDims : Faulted(d) \/ Yielded(d, {}))
        => ret[1].tasks = <<>>

(* C2: when exclusive filters are supplied and every one of their queries   *)
(* faulted, what list_tasks returns is the empty list, never the result of  *)
(* the query carrying only the non-exclusive filters.                       *)
C2_AllFaultedIsEmpty ==
    (ret # None /\ SuppliedDims # {} /\ \A d \in SuppliedDims : Faulted(d))
        => ret[1].tasks = <<>>

(* C3: a list-mode invocation (details false) never ends in an error: it    *)
(* ends with a result whose 'tasks' is a list of identifiers, whatever list *)
(* queries faulted.                                                         *)
C3_ListModeNeverFails ==
    (~params.details /\ pc \in {"done", "error"})
        => /\ pc = "done"
           /\ err = "none"
           /\ result # None
           /\ Range(result[1].ansible_facts.tasks) \subseteq Ids

(* C4: when no list query faults, list_tasks returns exactly the            *)
(* intersection of what the queries of the supplied exclusive filters       *)
(* served over all their pages; with no exclusive filter it returns what    *)
(* the one query carrying only the non-exclusive filters served; and the    *)
(* returned list has no duplicates.                                         *)
C4_ExactIntersection ==
    (ret # None /\ NoListFault)
        => /\ NoDuplicates(ret[1].tasks)
           /\ Range(ret[1].tasks) =
                 IF SuppliedDims = {}
                 THEN outcome["base"][1].served
                 ELSE Inter({outcome[d][1].served : d \in SuppliedDims})
           /\ SuppliedDims = {} =>
                 /\ Len(queries) = 1
                 /\ DOMAIN queries[1].args \cap ExclusiveKeys = {}

C4_Witness ==
    /\ ret # None
    /\ NoListFault
    /\ SuppliedDims = {"family", "status"}
    /\ Yielded("family", {Arn(1), Arn(2)})
    /\ Yielded("status", {Arn(2)})
    /\ ret[1].tasks = <<Arn(2)>>

\* What list_tasks comes to when the exclusive queries, with the outcomes
\* they had, are folded by get_tasks_list in the order ord.
RECURSIVE FoldIn(_, _, _)
FoldIn(ord, i, t) ==
    IF i > Len(ord) THEN t
    ELSE FoldIn(ord, i + 1,
                GetTasksList(t, outcome[ord[i]][1].fault, outcome[ord[i]][1].served))

ResolveIn(ord) ==
    LET t == FoldIn(ord, 1, None)
        b == IF t # None THEN t
             ELSE IF outcome["base"] = None THEN None
             ELSE GetTasksList(None, outcome["base"][1].fault, outcome["base"][1].served)
    IN  IF t = None /\ outcome["base"] = None
        THEN [kind |-> "unissued", ids |-> {}]
        ELSE IF b = None THEN [kind |-> "TypeError", ids |-> {}]
        ELSE [kind |-> "set", ids |-> b[1]]

\* What list_tasks did come to.
Resolved ==
    IF ret # None THEN [kind |-> "set", ids |-> Range(ret[1].tasks)]
    ELSE [kind |-> "TypeError", ids |-> {}]

(* C5: order independence.  Once list_tasks has finished, folding the       *)
(* outcomes of the exclusive queries in any order of the supplied filters   *)
(* comes to the result list_tasks produced, faulting queries included.      *)
C5_OrderIndependent ==
    ListFinished => \A ord \in Listings(SuppliedDims) : ResolveIn(ord) = Resolved

C5_Witness ==
    /\ ListFinished
    /\ SuppliedDims = ExclusiveDims
    /\ Yielded("family", {Arn(1)})
    /\ Faulted("service")
    /\ Yielded("status", {Arn(1), Arn(2)})
    /\ Resolved = [kind |-> "set", ids |-> {Arn(1)}]

\* The non-exclusive filters the invocation supplies, as a query carries them.
CarriesNonExclusive(a) ==
    /\ Truthy(params.cluster) => "cluster" \in DOMAIN a /\ a["cluster"] = params.cluster
    /\ Truthy(params.container) =>
          "containerInstance" \in DOMAIN a /\ a["containerInstance"] = params.container
    /\ Truthy(params.started_by) =>
          "startedBy" \in DOMAIN a /\ a["startedBy"] = params.started_by

(* C6: per-call exclusivity.  Every list query issued carries all supplied  *)
(* non-exclusive filters and at most one exclusive filter, its own; and     *)
(* between two queries fn_args holds no exclusive filter, whether the       *)
(* earlier query succeeded or faulted.                                      *)
C6_PerCallExclusivity ==
    /\ \A i \in 1..Len(queries) :
          /\ CarriesNonExclusive(queries[i].args)
          /\ Cardinality(DOMAIN queries[i].args \cap ExclusiveKeys) <= 1
          /\ DOMAIN queries[i].args \cap ExclusiveKeys =
                IF queries[i].dim = "base" THEN {} ELSE {KeyOf(queries[i].dim)}
    /\ pc # "paging" => DOMAIN fn_args \cap ExclusiveKeys = {}

C6_Witness ==
    /\ Len(queries) = 3
    /\ Faulted("family")
    /\ Yielded("service", {Arn(1)})
    /\ pc = "paging"
    /\ cur = "status"
    /\ DOMAIN queries[3].args = NonExclusiveKeys \cup {"desiredStatus"}
    /\ queries[3].args["desiredStatus"] = "RUNNING"

(* C7 as claimed: whenever 'task' is supplied, no list query is issued      *)
(* during the invocation.                                                   *)
C7_TaskBypassesResolver ==
    params.task # <<>> => queries = <<>>

(* C7 as amended: when 'task' is supplied and details is true, no list      *)
(* query is issued whatever other filters are supplied, and the one         *)
(* describe call receives exactly the comma-separated identifiers of        *)
(* 'task'.                                                                  *)
C7_TaskBypassesResolverInDetailMode ==
    (params.details /\ params.task # <<>>)
        => /\ queries = <<>>
           /\ pc \in {"done", "error"} => Len(describeCalls) = 1
           /\ \A i \in 1..Len(describeCalls) :
                 /\ JoinComma(describeCalls[i].call.tasks) = params.task
                 /\ \A j \in 1..Len(describeCalls[i].call.tasks) :
                       ~HasSep(describeCalls[i].call.tasks[j])

C7_Witness ==
    /\ params.details
    /\ params.task = <<"t", "1", ",", "t", "2">>
    /\ Truthy(params.family) /\ Truthy(params.service) /\ Truthy(params.status)
    /\ Truthy(params.container) /\ Truthy(params.started_by)
    /\ pc = "done"
    /\ Len(describeCalls) = 1
    /\ describeCalls[1].call.tasks = <<Arn(1), Arn(2)>>

(* C8: batch limit.  No describe call is given more identifiers than the    *)
(* remote call accepts.                                                     *)
C8_BatchLimit ==
    \A i \in 1..Len(describeCalls) : Len(describeCalls[i].call.tasks) <= DescribeLimit

(* C9: describe-fault asymmetry.  A fault of the describe call ends the     *)
(* invocation in an error with no result; a ClientError never comes from a  *)
(* list query; and an invocation ends with a result or with an error,       *)
(* never with both.                                                         *)
C9_DescribeFaultIsFatal ==
    /\ \A i \in 1..Len(describeCalls) :
          describeCalls[i].fault => pc = "error" /\ result = None /\ err = "ClientError"
    /\ err = "ClientError" => Len(describeCalls) = 1 /\ describeCalls[1].fault
    /\ \A d \in DOMAIN outcome : Faulted(d) => err # "ClientError" \/ describeCalls # <<>>
    /\ pc = "done" <=> result # None
    /\ pc = "error" <=> err # "none"
    /\ ~(result # None /\ err # "none")

C9_Witness ==
    /\ Faulted("family")
    /\ Yielded("service", {Arn(1)})
    /\ Len(describeCalls) = 1
    /\ describeCalls[1].fault
    /\ pc = "error"
    /\ result = None

(* C10: short-circuit.  In detail mode, when the identifiers to describe    *)
(* are none, no describe call is ever issued and the invocation ends with   *)
(* empty 'tasks' and no 'tasks_not_running'.                                *)
C10_ShortCircuit ==
    (params.details /\ dargs # None /\ dargs[1].tasks = <<>>)
        => /\ describeCalls = <<>>
           /\ pc \in {"describe", "done"}
           /\ pc = "done" =>
                 /\ result # None
                 /\ result[1].ansible_facts = [tasks |-> <<>>]
                 /\ err = "none"

C10_Witness ==
    /\ params.details
    /\ dargs # None
    /\ dargs[1].tasks = <<>>
    /\ Faulted("family")
    /\ Yielded("status", {})
    /\ pc = "done"
    /\ result[1].ansible_facts = [tasks |-> <<>>]

(* C11: ecr_images reports changed=true exactly when the remote's           *)
(* batch-delete response lists at least one deleted image, and the flag     *)
(* agrees with the deleted-image list in the returned facts.                *)
C11_ChangedIffDeleted ==
    (pc = "done" /\ Len(deleteCalls) = 1)
        => /\ result[1].changed <=> PyTruthy(Get(deleteCalls[1].response, "imageIds"))
           /\ result[1].changed <=> PyTruthy(result[1].ansible_facts["image_ids"])

====
